---- MODULE Spec2Model ----
(***************************************************************************)
(* Portfolio view controllers of the nicex theme's static export.          *)
(*                                                                         *)
(* Three controllers are modelled, one per page load (variant):            *)
(*   "fix"     static-fix.js: capture-phase click interceptor, pending     *)
(*             queue, master list / filter / pagination;                   *)
(*   "vanilla" the first module of part_000: button-level handlers;        *)
(*   "jquery"  the second module of part_000: PortfolioLoadMore, which     *)
(*             hides and shows the items in place.                         *)
(* A DOM element of the list is a record [id, cat]: its id and its raw     *)
(* data-category attribute ("" when the attribute is absent).  A filter    *)
(* control is named by its raw data-filter attribute ("" when absent).     *)
(***************************************************************************)
EXTENDS Integers, Sequences, FiniteSets, TLC

\* ------------------------------------------------------------------------
\* Bounds of the model
\* ------------------------------------------------------------------------
\* longest generated item list (two full batches and a tail)
MaxItems == 17

\* most clicks recorded before initialization
MaxClicks == 2

\* ------------------------------------------------------------------------
\* Program constants
\* ------------------------------------------------------------------------
ITEMS_PER_BATCH == 8
initialLoad == 8
loadPerClick == 8

\* ------------------------------------------------------------------------
\* Values
\* ------------------------------------------------------------------------
Variants == {"fix", "vanilla", "jquery"}

\* null pendingFilter
NoFilter == "<null>"

\* data-category attributes found on items ("" = attribute absent)
ItemCats == {"design", "Design", ""}

\* data-filter attributes of the filter controls ("" = attribute absent)
Buttons == {"all", "ALL", "", "design", "DESIGN"}

\* String.prototype.toLowerCase on the strings of the model
Lower(s) ==
    CASE s = "ALL" -> "all"
      [] s = "DESIGN" -> "design"
      [] s = "Design" -> "design"
      [] OTHER -> s

\* JavaScript  a || d  on an attribute value (null and "" are falsy)
OrElse(a, d) == IF a = "" THEN d ELSE a

Min(a, b) == IF a < b THEN a ELSE b

\* Array.prototype.slice(a, b), 0-based, clamped to the array
Slice(s, a, b) == SubSeq(s, Min(a, Len(s)) + 1, Min(b, Len(s)))

\* ids of the elements of a list of DOM elements
Ids(els) == {els[k].id : k \in 1..Len(els)}

\* ------------------------------------------------------------------------
\* Pages the script is loaded into
\* ------------------------------------------------------------------------
\* item lists: the categories repeat a pattern of period one or two
Patterns == [1..2 -> ItemCats]

PatternDom(n, pat) == [i \in 1..n |-> [id |-> i, cat |-> pat[((i - 1) % 2) + 1]]]

\* the list of 20 items of section 8: 12 "design", 8 "branding"
ScenarioBlocks ==
    [i \in 1..20 |-> [id |-> i, cat |-> IF i <= 12 THEN "design" ELSE "branding"]]

ScenarioMixed ==
    [i \in 1..20 |-> [id |-> i, cat |-> IF (i % 5) \in {1, 2, 4} THEN "design" ELSE "branding"]]

ScenarioDoms == {ScenarioBlocks, ScenarioMixed}

Doms == {PatternDom(n, pat) : n \in 0..MaxItems, pat \in Patterns} \cup ScenarioDoms

\* item lists of the pages that lack the aside panel or the load-more control
SmallDoms == {PatternDom(n, pat) : n \in {0, 9}, pat \in Patterns}

\* the load-more control as the export rendered it
\* (max: its data-max attribute, NoMax when absent)
NoMax == -1
ButtonMarkup ==
    [present |-> TRUE, disabled |-> FALSE, textMain |-> "", textNo |-> "", max |-> NoMax]
NoButton ==
    [present |-> FALSE, disabled |-> FALSE, textMain |-> "", textNo |-> "", max |-> NoMax]

\* figure.ms-p-list__img of the aside panel: one per item and one whose data-id
\* matches no item; inline display "" on all of them
AsideMarkup(dom) == [i \in 0..Len(dom) |-> ""]
NoAside == [i \in {} |-> ""]

VARIABLES
    variant,          \* which controller this page loads
    page,             \* [container, list]: is the expected markup there
    readyState,       \* document.readyState
    timers,           \* number of pending setTimeout callbacks of the controller
    list,             \* children of .ms-p-list, in DOM order
    active,           \* filter controls carrying the active class
    btn,              \* the load-more control: disabled class and the two labels
    imgDisplay,       \* inline display of each preview image, by data-id
    masterItems,
    filteredItems,
    renderedCount,
    batches,          \* batches rendered since the list was last cleared by a filter
    currentFilter,    \* lower-cased value last given to applyFilter
    isInitialized,    \* jquery: the PortfolioLoadMore instance exists
    pendingFilter,
    pendingLoadMore,
    clicks,           \* the clicks intercepted before initialization, in order
    ran,              \* static-fix.js: the listeners that ran for the click just made
    ajax,             \* static-fix.js: the last $.ajax call and what became of it
    dataVisible,      \* jquery: data-visible attribute of each item, by position
    visibleCount,     \* jquery
    filterValue,      \* jquery
    maxItems,         \* jquery
    loadMoreBound,    \* jquery: is the click.loadMore handler bound
    gsap,             \* jquery: the global gsap the page provides
    warned,           \* jquery: the last showItems logged 'GSAP animation failed'
    lastOp,           \* the last event handled and what the handler did with it
    captures          \* number of times masterItems was built

vars == <<variant, page, readyState, timers, list, active, btn, imgDisplay,
          masterItems, filteredItems, renderedCount, batches, currentFilter,
          isInitialized, pendingFilter, pendingLoadMore, clicks, ran, ajax,
          dataVisible, visibleCount, filterValue, maxItems, loadMoreBound, gsap,
          warned, lastOp, captures>>

\* the variables of the vanilla controllers' view
viewVars == <<list, btn, imgDisplay, filteredItems, renderedCount, batches,
              currentFilter>>

\* the variables only the jquery controller writes
jqVars == <<dataVisible, visibleCount, filterValue, maxItems, loadMoreBound, warned>>

\* the variables only static-fix.js writes
pendingVars == <<pendingFilter, pendingLoadMore, clicks>>

\* a click on the load-more control, as recorded in clicks
LoadMoreClick == "<load more>"

Op(o, a) == [op |-> o, arg |-> a]

\* the view as one value, so that the handlers compose
View == [list |-> list, btn |-> btn, imgDisplay |-> imgDisplay,
         filteredItems |-> filteredItems, renderedCount |-> renderedCount,
         batches |-> batches,
         currentFilter |-> currentFilter]

SetView(v) ==
    /\ list' = v.list
    /\ btn' = v.btn
    /\ imgDisplay' = v.imgDisplay
    /\ filteredItems' = v.filteredItems
    /\ renderedCount' = v.renderedCount
    /\ batches' = v.batches
    /\ currentFilter' = v.currentFilter

\* ------------------------------------------------------------------------
\* static-fix.js
\* ------------------------------------------------------------------------
\* the URLs of the $.ajax calls, by what url.includes finds in them
PortfolioPageUrls == {"/portfolio/page/2/"}
SimplyStaticUrls == {"/?simply_static_page=3"}
OtherUrls == {"/wp-admin/admin-ajax.php", ""}
AjaxUrls == PortfolioPageUrls \cup SimplyStaticUrls \cup OtherUrls

\* a $.ajax call: $.ajax(settings), with the URL in settings.url ("" when it
\* has none), or $.ajax(url, settings)
AjaxCalls ==
    [form : {"settings", "urlThenSettings"}, url : AjaxUrls, type : {"GET", "POST"}]

NoCall == [form |-> "none", url |-> "", type |-> ""]

\* $.ajax = function(options) { ... }: what becomes of the call
ajaxOverride(call) ==
    LET url == IF call.form = "settings" THEN OrElse(call.url, "") ELSE ""
    IN IF url \in PortfolioPageUrls \/ url \in SimplyStaticUrls
       THEN [call |-> call, promise |-> "resolved", forwarded |-> NoCall]
       ELSE [call |-> call, promise |-> "original", forwarded |-> call]

\* the host page calls $.ajax
AjaxCall(call) ==
    /\ variant = "fix"
    /\ ajax' = ajaxOverride(call)
    /\ lastOp' = Op("ajax", call.form)
    /\ ran' = <<>>
    /\ UNCHANGED <<gsap, variant, page, readyState, timers, active, viewVars, masterItems,
                   isInitialized, pendingVars, jqVars, captures>>

\* the master array with the items that carry no data-category left out
BuildMasterSkipUncategorized(els) ==
    LET kept == SelectSeq(els, LAMBDA el : el.cat # "")
    IN [k \in 1..Len(kept) |->
           [element |-> kept[k], id |-> kept[k].id, category |-> Lower(kept[k].cat)]]

\* the master array built from the items now in the list
BuildMaster(els) ==
    [k \in 1..Len(els) |->
        [element |-> els[k], id |-> els[k].id,
         category |-> Lower(OrElse(els[k].cat, "uncategorized"))]]

\* updateButtonState with the comparison off by one (<= for <)
updateButtonStateInclusive(v) ==
    IF ~v.btn.present THEN v
    ELSE IF v.renderedCount <= Len(v.filteredItems)
         THEN [v EXCEPT !.btn.disabled = FALSE, !.btn.textMain = "", !.btn.textNo = "none"]
         ELSE [v EXCEPT !.btn.disabled = TRUE, !.btn.textMain = "none", !.btn.textNo = ""]

updateButtonState(v) ==
    IF ~v.btn.present THEN v
    ELSE IF v.renderedCount < Len(v.filteredItems)
         THEN [v EXCEPT !.btn.disabled = FALSE, !.btn.textMain = "", !.btn.textNo = "none"]
         ELSE [v EXCEPT !.btn.disabled = TRUE, !.btn.textMain = "none", !.btn.textNo = ""]

\* syncHoverImages that hides the images of absent items and never shows one again
syncHoverImagesHideOnly(v) ==
    LET visibleIds == Ids(v.list)
    IN [v EXCEPT !.imgDisplay =
            [id \in DOMAIN v.imgDisplay |->
                IF id \in visibleIds THEN v.imgDisplay[id] ELSE "none"]]

syncHoverImages(v) ==
    LET visibleIds == Ids(v.list)
    IN [v EXCEPT !.imgDisplay =
            [id \in DOMAIN v.imgDisplay |-> IF id \in visibleIds THEN "" ELSE "none"]]

\* renderBatch whose end index is not clamped to the filtered length
renderBatchUnclamped(v) ==
    LET start == v.renderedCount
        end == start + ITEMS_PER_BATCH
        toRender == Slice(v.filteredItems, start, end)
        appended == v.list \o [k \in 1..Len(toRender) |-> toRender[k].element]
    IN syncHoverImages(updateButtonState(
           [v EXCEPT !.list = appended, !.renderedCount = end,
                     !.batches = v.batches + 1]))

renderBatch(v) ==
    LET start == v.renderedCount
        end == Min(start + ITEMS_PER_BATCH, Len(v.filteredItems))
        toRender == Slice(v.filteredItems, start, end)
        appended == v.list \o [k \in 1..Len(toRender) |-> toRender[k].element]
    IN syncHoverImages(updateButtonState(
           [v EXCEPT !.list = appended, !.renderedCount = end,
                     !.batches = v.batches + 1]))

\* applyFilter that does not reset renderedCount
applyFilterNoReset(v, master, value) ==
    LET filter == Lower(value)
        kept == IF filter = "all" \/ filter = ""
                THEN master
                ELSE SelectSeq(master, LAMBDA item : item.category = filter)
    IN renderBatch([v EXCEPT !.filteredItems = kept, !.batches = 0,
                             !.list = <<>>, !.currentFilter = filter])

\* applyFilter that does not clear the list
applyFilterNoClear(v, master, value) ==
    LET filter == Lower(value)
        kept == IF filter = "all" \/ filter = ""
                THEN master
                ELSE SelectSeq(master, LAMBDA item : item.category = filter)
    IN renderBatch([v EXCEPT !.filteredItems = kept, !.renderedCount = 0,
                             !.batches = 0, !.currentFilter = filter])

applyFilter(v, master, value) ==
    LET filter == Lower(value)
        kept == IF filter = "all" \/ filter = ""
                THEN master
                ELSE SelectSeq(master, LAMBDA item : item.category = filter)
    IN renderBatch([v EXCEPT !.filteredItems = kept, !.renderedCount = 0,
                             !.batches = 0, !.list = <<>>, !.currentFilter = filter])

\* load-more branch that, with nothing left, clears the list and renders from the start
loadMoreBranchRestart(v) ==
    IF v.renderedCount < Len(v.filteredItems)
    THEN updateButtonState(renderBatch(v))
    ELSE renderBatch([v EXCEPT !.list = <<>>, !.renderedCount = 0, !.batches = 0])

\* the load-more branch of the click interceptor, taken when initialized
loadMoreBranch(v) ==
    IF v.renderedCount < Len(v.filteredItems)
    THEN updateButtonState(renderBatch(v))
    ELSE v

\* init() without the isInitialized guard
FixInitUnguarded ==
    IF ~page.container \/ ~page.list
    THEN /\ lastOp' = Op("initNoMarkup", "")
         /\ UNCHANGED <<viewVars, masterItems, isInitialized, pendingVars, captures>>
    ELSE LET master == BuildMaster(list)
             shown == applyFilter([View EXCEPT !.list = <<>>], master, "all")
             replayed == IF pendingFilter # NoFilter
                         THEN applyFilter(shown, master, pendingFilter)
                         ELSE shown
             loaded == IF pendingLoadMore THEN renderBatch(replayed) ELSE replayed
         IN /\ masterItems' = master
            /\ captures' = captures + 1
            /\ SetView(loaded)
            /\ pendingFilter' = NoFilter
            /\ pendingLoadMore' = FALSE
            /\ clicks' = <<>>
            /\ isInitialized' = TRUE
            /\ lastOp' = Op(IF isInitialized THEN "initAgain" ELSE "init", "")

\* init() without the check that the list element was found
FixInitNoListCheck ==
    IF isInitialized
    THEN /\ lastOp' = Op("initAgain", "")
         /\ UNCHANGED <<viewVars, masterItems, isInitialized, pendingVars, captures>>
    ELSE IF ~page.container
    THEN /\ lastOp' = Op("initNoMarkup", "")
         /\ UNCHANGED <<viewVars, masterItems, isInitialized, pendingVars, captures>>
    ELSE LET master == BuildMaster(list)
             shown == applyFilter([View EXCEPT !.list = <<>>], master, "all")
             replayed == IF pendingFilter # NoFilter
                         THEN applyFilter(shown, master, pendingFilter)
                         ELSE shown
             loaded == IF pendingLoadMore THEN renderBatch(replayed) ELSE replayed
         IN /\ masterItems' = master
            /\ captures' = captures + 1
            /\ SetView(loaded)
            /\ pendingFilter' = NoFilter
            /\ pendingLoadMore' = FALSE
            /\ clicks' = <<>>
            /\ isInitialized' = TRUE
            /\ lastOp' = Op("init", "")

\* init() with the replay of a pending load-more click left out
FixInitDropsLoadMore ==
    IF isInitialized
    THEN /\ lastOp' = Op("initAgain", "")
         /\ UNCHANGED <<viewVars, masterItems, isInitialized, pendingVars, captures>>
    ELSE IF ~page.container \/ ~page.list
    THEN /\ lastOp' = Op("initNoMarkup", "")
         /\ UNCHANGED <<viewVars, masterItems, isInitialized, pendingVars, captures>>
    ELSE LET master == BuildMaster(list)
             shown == applyFilter([View EXCEPT !.list = <<>>], master, "all")
             replayed == IF pendingFilter # NoFilter
                         THEN applyFilter(shown, master, pendingFilter)
                         ELSE shown
         IN /\ masterItems' = master
            /\ captures' = captures + 1
            /\ SetView(replayed)
            /\ pendingFilter' = NoFilter
            /\ pendingLoadMore' = FALSE
            /\ clicks' = <<>>
            /\ isInitialized' = TRUE
            /\ lastOp' = Op("init", "")

\* init() that replays the pending clicks without clearing them
FixInitKeepsPending ==
    IF isInitialized
    THEN /\ lastOp' = Op("initAgain", "")
         /\ UNCHANGED <<viewVars, masterItems, isInitialized, pendingVars, captures>>
    ELSE IF ~page.container \/ ~page.list
    THEN /\ lastOp' = Op("initNoMarkup", "")
         /\ UNCHANGED <<viewVars, masterItems, isInitialized, pendingVars, captures>>
    ELSE LET master == BuildMaster(list)
             shown == applyFilter([View EXCEPT !.list = <<>>], master, "all")
             replayed == IF pendingFilter # NoFilter
                         THEN applyFilter(shown, master, pendingFilter)
                         ELSE shown
             loaded == IF pendingLoadMore THEN renderBatch(replayed) ELSE replayed
         IN /\ masterItems' = master
            /\ captures' = captures + 1
            /\ SetView(loaded)
            /\ clicks' = <<>>
            /\ isInitialized' = TRUE
            /\ lastOp' = Op("init", "")
            /\ UNCHANGED <<pendingFilter, pendingLoadMore>>

\* init(): the whole call, pending replay included
FixInit ==
    IF isInitialized
    THEN /\ lastOp' = Op("initAgain", "")
         /\ UNCHANGED <<viewVars, masterItems, isInitialized, pendingVars, captures>>
    ELSE IF ~page.container \/ ~page.list
    THEN /\ lastOp' = Op("initNoMarkup", "")
         /\ UNCHANGED <<viewVars, masterItems, isInitialized, pendingVars, captures>>
    ELSE LET master == BuildMaster(list)
             shown == applyFilter([View EXCEPT !.list = <<>>], master, "all")
             replayed == IF pendingFilter # NoFilter
                         THEN applyFilter(shown, master, pendingFilter)
                         ELSE shown
             loaded == IF pendingLoadMore THEN renderBatch(replayed) ELSE replayed
         IN /\ masterItems' = master
            /\ captures' = captures + 1
            /\ SetView(loaded)
            /\ pendingFilter' = NoFilter
            /\ pendingLoadMore' = FALSE
            /\ clicks' = <<>>
            /\ isInitialized' = TRUE
            /\ lastOp' = Op("init", "")

\* document DOMContentLoaded listener: setTimeout(init, 500)
FixDOMContentLoaded ==
    /\ variant = "fix"
    /\ readyState = "loading"
    /\ readyState' = "interactive"
    /\ timers' = timers + 1
    /\ lastOp' = Op("DOMContentLoaded", "")
    /\ ran' = <<>>
    /\ UNCHANGED <<ajax, gsap, variant, page, active, viewVars, masterItems, isInitialized,
                   pendingVars, jqVars, captures>>

\* window load listener: if (!isInitialized) setTimeout(init, 200)
FixWindowLoad ==
    /\ variant = "fix"
    /\ readyState = "interactive"
    /\ readyState' = "complete"
    /\ timers' = IF isInitialized THEN timers ELSE timers + 1
    /\ lastOp' = Op("load", "")
    /\ ran' = <<>>
    /\ UNCHANGED <<ajax, gsap, variant, page, active, viewVars, masterItems, isInitialized,
                   pendingVars, jqVars, captures>>

\* a scheduled init fires
FixTimer ==
    /\ variant = "fix"
    /\ timers > 0
    /\ timers' = timers - 1
    /\ FixInit
    /\ ran' = <<>>
    /\ UNCHANGED <<ajax, gsap, variant, page, readyState, active, jqVars>>

\* the click listeners on the path of a click on a control of the container.
\* A listener is on a node, for the capture or the bubble phase, and may stop
\* the event: "propagation" keeps it from the next node, "immediate" also
\* from the listeners still to run on the same node.

\* the interceptor registered without the capture flag
InterceptorOnBubble ==
    [name |-> "interceptor", node |-> "document", capture |-> FALSE, stops |-> "immediate"]

\* document.addEventListener('click', ..., true), which calls
\* stopImmediatePropagation for the clicks on the controls of the container
Interceptor ==
    [name |-> "interceptor", node |-> "document", capture |-> TRUE, stops |-> "immediate"]

\* the listener setupFilterHandlers puts on every filter control
ButtonHandler ==
    [name |-> "button", node |-> "control", capture |-> FALSE, stops |-> "propagation"]

\* the host page's jQuery handlers static-fix.js removes with off(): delegated
\* on the document, on the container, and bound to the control itself
HostDocument ==
    [name |-> "host", node |-> "document", capture |-> FALSE, stops |-> "none"]
HostContainer ==
    [name |-> "host", node |-> "container", capture |-> FALSE, stops |-> "none"]
HostControl ==
    [name |-> "host", node |-> "control", capture |-> FALSE, stops |-> "none"]

\* the listeners on the path of a click, in registration order: the host
\* page's (those on the controls are lost when init replaces the controls by
\* clones), the interceptor, and after init the handler of a filter control
Listeners(onFilter) ==
    <<HostDocument, HostContainer>>
    \o (IF isInitialized THEN <<>> ELSE <<HostControl>>)
    \o <<Interceptor>>
    \o (IF isInitialized /\ onFilter THEN <<ButtonHandler>> ELSE <<>>)

\* the order in which a click on a control visits the nodes
DispatchPath ==
    <<[node |-> "document", phase |-> "capture"],
      [node |-> "container", phase |-> "capture"],
      [node |-> "control", phase |-> "target"],
      [node |-> "container", phase |-> "bubble"],
      [node |-> "document", phase |-> "bubble"]>>

\* where on the path a listener is called
CalledAt(l) ==
    [node |-> l.node,
     phase |-> IF l.node = "control" THEN "target"
               ELSE IF l.capture THEN "capture" ELSE "bubble"]

\* the listeners of one node that run, in order
RECURSIVE RunNode(_)
RunNode(ls) ==
    IF ls = <<>> THEN <<>>
    ELSE <<Head(ls)>> \o (IF Head(ls).stops = "immediate" THEN <<>> ELSE RunNode(Tail(ls)))

\* the names of the listeners among ls that run for one click, from the k-th
\* stop of the path on
RECURSIVE Dispatch(_, _)
Dispatch(ls, k) ==
    IF k > Len(DispatchPath) THEN <<>>
    ELSE LET here == RunNode(SelectSeq(ls, LAMBDA l : CalledAt(l) = DispatchPath[k]))
             stopped == \E i \in 1..Len(here) : here[i].stops # "none"
         IN [i \in 1..Len(here) |-> here[i].name]
            \o (IF stopped THEN <<>> ELSE Dispatch(ls, k + 1))

\* capture-phase click interceptor, click on the filter control b
FixClickFilter(b) ==
    /\ variant = "fix"
    /\ page.container
    /\ IF ~isInitialized
       THEN /\ Len(clicks) < MaxClicks
            /\ pendingFilter' = OrElse(b, "all")
            /\ clicks' = Append(clicks, b)
            /\ lastOp' = Op("filterQueued", b)
            /\ UNCHANGED <<active, viewVars, pendingLoadMore>>
       ELSE IF b \notin active
       THEN /\ active' = {b}
            /\ SetView(applyFilter(View, masterItems, OrElse(b, "all")))
            /\ lastOp' = Op("filter", b)
            /\ UNCHANGED pendingVars
       ELSE /\ lastOp' = Op("filterIgnored", b)
            /\ UNCHANGED <<active, viewVars, pendingVars>>
    /\ ran' = Dispatch(Listeners(TRUE), 1)
    /\ UNCHANGED <<ajax, gsap, variant, page, readyState, timers, masterItems, isInitialized,
                   jqVars, captures>>

\* capture-phase click interceptor, click on the load-more control
FixClickLoadMore ==
    /\ variant = "fix"
    /\ page.container
    /\ btn.present
    /\ IF ~isInitialized
       THEN /\ Len(clicks) < MaxClicks
            /\ pendingLoadMore' = TRUE
            /\ clicks' = Append(clicks, LoadMoreClick)
            /\ lastOp' = Op("loadMoreQueued", "")
            /\ UNCHANGED <<viewVars, pendingFilter>>
       ELSE /\ SetView(loadMoreBranch(View))
            /\ lastOp' = Op(IF renderedCount < Len(filteredItems)
                            THEN "loadMore" ELSE "loadMoreIgnored", "")
            /\ UNCHANGED pendingVars
    /\ ran' = Dispatch(Listeners(FALSE), 1)
    /\ UNCHANGED <<ajax, gsap, variant, page, readyState, timers, active, masterItems,
                   isInitialized, jqVars, captures>>

\* ------------------------------------------------------------------------
\* part_000, first module (vanilla controller)
\* ------------------------------------------------------------------------
VanBuildMaster(els) ==
    [k \in 1..Len(els) |->
        [element |-> els[k], id |-> els[k].id,
         category |-> OrElse(els[k].cat, "uncategorized")]]

updateLoadMoreButton(v) ==
    IF ~v.btn.present THEN v
    ELSE IF v.renderedCount < Len(v.filteredItems)
         THEN [v EXCEPT !.btn.disabled = FALSE, !.btn.textMain = "", !.btn.textNo = "none"]
         ELSE [v EXCEPT !.btn.disabled = TRUE, !.btn.textMain = "none", !.btn.textNo = ""]

VanSyncHoverImages(v) ==
    LET visibleIds == Ids(v.list)
    IN [v EXCEPT !.imgDisplay =
            [id \in DOMAIN v.imgDisplay |-> IF id \in visibleIds THEN "" ELSE "none"]]

renderNextBatch(v) ==
    LET startIndex == v.renderedCount
        endIndex == Min(startIndex + ITEMS_PER_BATCH, Len(v.filteredItems))
        itemsToRender == Slice(v.filteredItems, startIndex, endIndex)
        appended == v.list \o [k \in 1..Len(itemsToRender) |-> itemsToRender[k].element]
    IN VanSyncHoverImages(updateLoadMoreButton(
           [v EXCEPT !.list = appended, !.renderedCount = endIndex,
                     !.batches = v.batches + 1]))

VanApplyFilter(v, master, value) ==
    LET filter == Lower(value)
        kept == IF filter = "all" \/ filter = ""
                THEN master
                ELSE SelectSeq(master, LAMBDA item : Lower(item.category) = filter)
    IN renderNextBatch([v EXCEPT !.filteredItems = kept, !.renderedCount = 0,
                                 !.batches = 0, !.list = <<>>,
                                 !.currentFilter = filter])

\* the load-more button's click handler
VanLoadMore(v) ==
    IF v.renderedCount < Len(v.filteredItems) THEN renderNextBatch(v) ELSE v

VanInit ==
    IF isInitialized
    THEN /\ lastOp' = Op("initAgain", "")
         /\ UNCHANGED <<viewVars, masterItems, isInitialized, captures>>
    ELSE IF ~page.container \/ ~page.list
    THEN /\ lastOp' = Op("initNoMarkup", "")
         /\ UNCHANGED <<viewVars, masterItems, isInitialized, captures>>
    ELSE LET master == VanBuildMaster(list)
         IN /\ masterItems' = master
            /\ captures' = captures + 1
            /\ SetView(VanApplyFilter([View EXCEPT !.list = <<>>], master, "all"))
            /\ isInitialized' = TRUE
            /\ lastOp' = Op("init", "")

\* document.addEventListener('DOMContentLoaded', init)
VanDOMContentLoaded ==
    /\ variant = "vanilla"
    /\ readyState = "loading"
    /\ readyState' = "interactive"
    /\ VanInit
    /\ ran' = <<>>
    /\ UNCHANGED <<ajax, gsap, variant, page, timers, active, pendingVars, jqVars>>

\* window load listener: if (!isInitialized) init()
VanWindowLoad ==
    /\ variant = "vanilla"
    /\ readyState = "interactive"
    /\ readyState' = "complete"
    /\ IF isInitialized
       THEN /\ lastOp' = Op("load", "")
            /\ UNCHANGED <<viewVars, masterItems, isInitialized, captures>>
       ELSE VanInit
    /\ ran' = <<>>
    /\ UNCHANGED <<ajax, gsap, variant, page, timers, active, pendingVars, jqVars>>

\* setTimeout(init, 100) fires
VanTimer ==
    /\ variant = "vanilla"
    /\ timers > 0
    /\ timers' = timers - 1
    /\ VanInit
    /\ ran' = <<>>
    /\ UNCHANGED <<ajax, gsap, variant, page, readyState, active, pendingVars, jqVars>>

\* click handler that setupFilters put on the filter control b
VanClickFilter(b) ==
    /\ variant = "vanilla"
    /\ isInitialized
    /\ active' = {b}
    /\ SetView(VanApplyFilter(View, masterItems, OrElse(b, "all")))
    /\ lastOp' = Op("filter", b)
    /\ ran' = <<>>
    /\ UNCHANGED <<ajax, gsap, variant, page, readyState, timers, masterItems, isInitialized,
                   pendingVars, jqVars, captures>>

\* click handler that setupLoadMore put on the load-more control
VanClickLoadMore ==
    /\ variant = "vanilla"
    /\ isInitialized
    /\ btn.present
    /\ SetView(VanLoadMore(View))
    /\ lastOp' = Op(IF renderedCount < Len(filteredItems)
                    THEN "loadMore" ELSE "loadMoreIgnored", "")
    /\ ran' = <<>>
    /\ UNCHANGED <<ajax, gsap, variant, page, readyState, timers, active, masterItems,
                   isInitialized, pendingVars, jqVars, captures>>

\* ------------------------------------------------------------------------
\* part_000, second module (jQuery controller, PortfolioLoadMore)
\* ------------------------------------------------------------------------
\* the instance's fields and the DOM state it writes, as one value
JqView == [dataVisible |-> dataVisible, visibleCount |-> visibleCount, btn |-> btn,
           loadMoreBound |-> loadMoreBound, filterValue |-> filterValue,
           maxItems |-> maxItems, warned |-> warned]

SetJqView(j) ==
    /\ dataVisible' = j.dataVisible
    /\ visibleCount' = j.visibleCount
    /\ btn' = j.btn
    /\ loadMoreBound' = j.loadMoreBound
    /\ filterValue' = j.filterValue
    /\ maxItems' = j.maxItems
    /\ warned' = j.warned

matchesFilter(fv, item) ==
    IF fv = "all" \/ fv = "" THEN TRUE
    ELSE Lower(item.cat) = Lower(fv)

\* the first n members of a set of positions
RECURSIVE FirstN(_, _)
FirstN(S, n) ==
    IF n = 0 \/ S = {} THEN {}
    ELSE LET m == CHOOSE x \in S : \A y \in S : x <= y
         IN {m} \cup FirstN(S \ {m}, n - 1)

JqUpdateButtonState(j) ==
    LET counted == {k \in 1..Len(list) :
                       \/ list[k].cat # "" /\ list[k].cat = j.filterValue
                       \/ j.filterValue = "all"}
        matchingItems == Cardinality(counted)
        visibleMatching == Cardinality({k \in counted : j.dataVisible[k] = "true"})
    IN IF visibleMatching >= matchingItems \/ j.visibleCount >= j.maxItems
       THEN [j EXCEPT !.btn = IF j.btn.present
                               THEN [j.btn EXCEPT !.disabled = TRUE, !.textMain = "none",
                                                  !.textNo = ""]
                               ELSE j.btn,
                      !.loadMoreBound = FALSE]
       ELSE [j EXCEPT !.btn = IF j.btn.present
                               THEN [j.btn EXCEPT !.disabled = FALSE, !.textMain = "",
                                                  !.textNo = "none"]
                               ELSE j.btn]

\* the global gsap: absent, working, or with a fromTo that throws
GsapStates == {"undefined", "loaded", "throws"}

\* safeGsapFromTo without the try/catch
safeGsapFromToUnguarded(g) ==
    IF g = "undefined" THEN "skipped"
    ELSE IF g = "throws" THEN "thrown" ELSE "animated"

\* safeGsapFromTo, called on one item: what comes of the call
safeGsapFromTo(g) ==
    IF g = "undefined" THEN "skipped"
    ELSE IF g = "throws" THEN "caught" ELSE "animated"

\* showItems that adds the requested count, not the number shown, to visibleCount
showItemsAddsCount(j, count) ==
    LET candidates == {k \in 1..Len(list) :
                          matchesFilter(j.filterValue, list[k]) /\ j.dataVisible[k] # "true"}
        itemsToShow == FirstN(candidates, count)
        animation == IF gsap # "undefined" THEN safeGsapFromTo(gsap) ELSE "fadeIn"
    IN JqUpdateButtonState(
           [j EXCEPT !.dataVisible = [k \in 1..Len(list) |->
                                         IF k \in itemsToShow
                                         THEN "true" ELSE j.dataVisible[k]],
                     !.visibleCount = j.visibleCount + count,
                     !.warned = animation = "caught" /\ itemsToShow # {}])

\* showItems: collect the batch, reveal each item (gsap when defined, else
\* fadeIn), add to visibleCount, update the button. An exception leaving the
\* animation call would end the forEach at its first item.
showItems(j, count) ==
    LET candidates == {k \in 1..Len(list) :
                          matchesFilter(j.filterValue, list[k]) /\ j.dataVisible[k] # "true"}
        itemsToShow == FirstN(candidates, count)
        shown == Cardinality(itemsToShow)
        animation == IF gsap # "undefined" THEN safeGsapFromTo(gsap) ELSE "fadeIn"
    IN IF animation = "thrown" /\ itemsToShow # {}
       THEN [j EXCEPT !.dataVisible = [k \in 1..Len(list) |->
                                          IF k \in FirstN(itemsToShow, 1)
                                          THEN "true" ELSE j.dataVisible[k]],
                      !.warned = FALSE]
       ELSE JqUpdateButtonState(
                [j EXCEPT !.dataVisible = [k \in 1..Len(list) |->
                                              IF k \in itemsToShow
                                              THEN "true" ELSE j.dataVisible[k]],
                          !.visibleCount = j.visibleCount + shown,
                          !.warned = animation = "caught" /\ itemsToShow # {}])

\* resetVisibility that does not hide the items shown so far
resetVisibilityNoHide(j) ==
    showItems([j EXCEPT !.visibleCount = 0], initialLoad)

resetVisibility(j) ==
    showItems([j EXCEPT !.visibleCount = 0,
                        !.dataVisible = [k \in 1..Len(list) |-> "false"]],
              initialLoad)

bindLoadMore(j) == [j EXCEPT !.loadMoreBound = j.btn.present]

\* new PortfolioLoadMore($container): the constructor and init()
PortfolioLoadMore(j) ==
    LET totalItems == Len(list)
        made == [j EXCEPT !.visibleCount = 0, !.filterValue = "all",
                          !.maxItems = IF j.btn.present /\ j.btn.max # NoMax
                                       THEN j.btn.max ELSE totalItems]
    IN JqUpdateButtonState(bindLoadMore(resetVisibility(made)))

setFilter(j, value) == resetVisibility([j EXCEPT !.filterValue = OrElse(value, "all")])

\* $(document).ready callback: setTimeout(..., 100)
JqDocumentReady ==
    /\ variant = "jquery"
    /\ readyState = "loading"
    /\ readyState' = "interactive"
    /\ timers' = timers + 1
    /\ lastOp' = Op("DOMContentLoaded", "")
    /\ ran' = <<>>
    /\ UNCHANGED <<ajax, gsap, variant, page, list, active, btn, imgDisplay, masterItems,
                   filteredItems, renderedCount, batches,
                   currentFilter, isInitialized,
                   pendingVars, jqVars, captures>>

\* the timer fires: initPortfolioFilter()
JqTimer ==
    /\ variant = "jquery"
    /\ timers > 0
    /\ timers' = timers - 1
    /\ IF ~page.container
       THEN /\ lastOp' = Op("initNoMarkup", "")
            /\ UNCHANGED <<btn, jqVars, isInitialized>>
       ELSE /\ SetJqView(PortfolioLoadMore(JqView))
            /\ isInitialized' = TRUE
            /\ lastOp' = Op("init", "")
    /\ ran' = <<>>
    /\ UNCHANGED <<ajax, gsap, variant, page, readyState, list, active, imgDisplay, masterItems,
                   filteredItems, renderedCount, batches,
                   currentFilter, pendingVars, captures>>

\* filter handler that marks the clicked control without unmarking the others
JqClickFilterKeepActive(b) ==
    /\ variant = "jquery"
    /\ isInitialized
    /\ IF b \notin active
       THEN /\ active' = active \cup {b}
            /\ SetJqView(setFilter(JqView, OrElse(b, "all")))
            /\ lastOp' = Op("filter", b)
       ELSE /\ lastOp' = Op("filterIgnored", b)
            /\ UNCHANGED <<active, btn, jqVars>>
    /\ ran' = <<>>
    /\ UNCHANGED <<ajax, gsap, variant, page, readyState, timers, list, imgDisplay, masterItems,
                   filteredItems, renderedCount, batches,
                   currentFilter, isInitialized,
                   pendingVars, captures>>

\* delegated click.staticFilter handler, selector .filter-nav__item:not(.active)
JqClickFilter(b) ==
    /\ variant = "jquery"
    /\ isInitialized
    /\ IF b \notin active
       THEN /\ active' = {b}
            /\ SetJqView(setFilter(JqView, OrElse(b, "all")))
            /\ lastOp' = Op("filter", b)
       ELSE /\ lastOp' = Op("filterIgnored", b)
            /\ UNCHANGED <<active, btn, jqVars>>
    /\ ran' = <<>>
    /\ UNCHANGED <<ajax, gsap, variant, page, readyState, timers, list, imgDisplay, masterItems,
                   filteredItems, renderedCount, batches,
                   currentFilter, isInitialized,
                   pendingVars, captures>>

\* click on the load-more control: the click.loadMore handler, if still bound
JqClickLoadMore ==
    /\ variant = "jquery"
    /\ isInitialized
    /\ btn.present
    /\ IF loadMoreBound
       THEN /\ SetJqView(showItems(JqView, loadPerClick))
            /\ lastOp' = Op("loadMore", "")
       ELSE /\ lastOp' = Op("loadMoreIgnored", "")
            /\ UNCHANGED <<btn, jqVars>>
    /\ ran' = <<>>
    /\ UNCHANGED <<ajax, gsap, variant, page, readyState, timers, list, active, imgDisplay,
                   masterItems, filteredItems, renderedCount, batches,
                   currentFilter,
                   isInitialized, pendingVars, captures>>

\* what the visitor sees in the list: the elements not hidden, in DOM order
Displayed ==
    IF variant = "jquery" /\ isInitialized
    THEN LET shownAt == SelectSeq([k \in 1..Len(list) |-> k],
                                  LAMBDA k : dataVisible[k] = "true")
         IN [n \in 1..Len(shownAt) |-> list[shownAt[n]]]
    ELSE list

\* ------------------------------------------------------------------------
\* Page load
\* ------------------------------------------------------------------------
\* the export is of the unfiltered page: its "all" control carries the active class
InitialActive == IF page.container THEN {"all"} ELSE {}

\* data-max values the load-more control is given (read by the jquery controller)
DataMax == {NoMax, 16}

Layout(dom, hasBtn, hasAside) ==
    /\ list = dom
    /\ btn \in IF ~hasBtn THEN {NoButton}
               ELSE IF variant # "jquery" THEN {ButtonMarkup}
               ELSE {[ButtonMarkup EXCEPT !.max = m] : m \in DataMax}
    /\ imgDisplay = IF hasAside THEN AsideMarkup(dom) ELSE NoAside

Init ==
    /\ variant \in Variants
    /\ \/ /\ page = [container |-> TRUE, list |-> TRUE]
          /\ \/ \E dom \in Doms : Layout(dom, TRUE, TRUE)
             \/ \E dom \in SmallDoms : Layout(dom, TRUE, FALSE) \/ Layout(dom, FALSE, TRUE)
       \/ /\ page \in {[container |-> TRUE, list |-> FALSE],
                       [container |-> FALSE, list |-> FALSE]}
          /\ Layout(<<>>, page.container, page.container)
    /\ active = InitialActive
    /\ readyState \in {"loading", "interactive", "complete"}
    /\ timers = IF readyState = "loading" THEN 0 ELSE 1
    /\ masterItems = <<>>
    /\ filteredItems = <<>>
    /\ renderedCount = 0
    /\ batches = 0
    /\ currentFilter = "all"
    /\ isInitialized = FALSE
    /\ pendingFilter = NoFilter
    /\ pendingLoadMore = FALSE
    /\ clicks = <<>>
    /\ ran = <<>>
    /\ ajax = [call |-> NoCall, promise |-> "none", forwarded |-> NoCall]
    /\ dataVisible = [k \in 1..Len(list) |-> ""]
    /\ visibleCount = 0
    /\ filterValue = "all"
    /\ maxItems = 0
    /\ loadMoreBound = FALSE
    /\ gsap \in IF variant = "jquery" THEN GsapStates ELSE {"undefined"}
    /\ warned = FALSE
    /\ lastOp = Op("load script", "")
    /\ captures = 0

Next ==
    \/ FixDOMContentLoaded
    \/ FixWindowLoad
    \/ FixTimer
    \/ \E b \in Buttons : FixClickFilter(b)
    \/ FixClickLoadMore
    \/ VanDOMContentLoaded
    \/ VanWindowLoad
    \/ VanTimer
    \/ \E b \in Buttons : VanClickFilter(b)
    \/ VanClickLoadMore
    \/ JqDocumentReady
    \/ JqTimer
    \/ \E b \in Buttons : JqClickFilter(b)
    \/ JqClickLoadMore

Spec == Init /\ [][Next]_vars

\* the $.ajax override on its own: static-fix.js loaded, the host page calling
InitAjax == Init /\ variant = "fix"

NextAjax == \E call \in AjaxCalls : AjaxCall(call)

SpecAjax == InitAjax /\ [][NextAjax]_vars

\* a timer set by static-fix.js with setTimeout comes due: the step FixTimer
\* takes, seen on the timers alone
FixTimerDue == variant = "fix" /\ timers > 0 /\ timers' = timers - 1

\* the browser fires DOMContentLoaded and load, and every timer set with
\* setTimeout comes due
FairSpec ==
    /\ Spec
    /\ WF_vars(FixDOMContentLoaded)
    /\ WF_vars(FixWindowLoad)
    /\ WF_timers(FixTimerDue)

\* ------------------------------------------------------------------------
\* Properties
\* ------------------------------------------------------------------------
VanillaControllers == {"fix", "vanilla"}

ClickFilter(b) == FixClickFilter(b) \/ VanClickFilter(b)
ClickLoadMore == FixClickLoadMore \/ VanClickLoadMore

\* MasterList restricted to the filter value F: everything when F is "all" or
\* empty, else the items of category F (letter case ignored), in MasterList order
Restricted(master, F) ==
    LET f == Lower(OrElse(F, "all"))
    IN SelectSeq(master, LAMBDA item : f = "all" \/ Lower(item.category) = f)

Elements(items) == [k \in 1..Len(items) |-> items[k].element]

\* the elements of the first batch of F
FirstBatch(master, F) ==
    LET r == Restricted(master, F)
    IN Elements(SubSeq(r, 1, Min(ITEMS_PER_BATCH, Len(r))))

ShowsMainLabel == btn.textMain = "" /\ btn.textNo = "none" /\ ~btn.disabled
ShowsNoItemsLabel == btn.textMain = "none" /\ btn.textNo = "" /\ btn.disabled

\* C1 as stated, in the case it names: in static-fix.js and the first module of
\* part_000, also when F is already the active filter (its control carries the
\* active class and the list shows F) and more batches have been loaded, a click
\* that selects F leaves exactly the first min(8, n_F) items of MasterList
\* restricted to F on display, in MasterList order.
C1_ReselectShowsFirstBatch ==
    [][\A b \in Buttons :
          (variant \in VanillaControllers /\ isInitialized /\ ClickFilter(b)
             /\ b \in active /\ currentFilter = Lower(OrElse(b, "all")))
          => list' = FirstBatch(masterItems, b)]_vars

\* C1 amended: the same result after every click on a control that does not
\* carry the active class (any control in part_000); static-fix.js ignores a
\* click on the control that carries the active class: the list and
\* renderedCount stay as they are.
C1_ClickOnInactiveShowsFirstBatch ==
    [][\A b \in Buttons :
          (variant \in VanillaControllers /\ isInitialized /\ ClickFilter(b))
          => IF variant = "fix" /\ b \in active
             THEN UNCHANGED <<list, renderedCount, filteredItems>>
             ELSE list' = FirstBatch(masterItems, b)]_vars

C1_Witness ==
    /\ variant \in VanillaControllers
    /\ isInitialized
    /\ lastOp = Op("filter", "DESIGN")
    /\ Len(Restricted(masterItems, "DESIGN")) > ITEMS_PER_BATCH
    /\ Len(Restricted(masterItems, "DESIGN")) < Len(masterItems)
    /\ Len(list) = ITEMS_PER_BATCH

\* C2: a load-more click in an initialized state with renderedCount below the
\* filtered length appends exactly filteredItems[renderedCount .. min(renderedCount
\* + 8, length)) after what was displayed, advances renderedCount by the number
\* appended, and leaves the active filter and the earlier items unchanged.
C2_LoadMoreAppendsNextBatch ==
    [][(variant \in VanillaControllers /\ isInitialized
          /\ renderedCount < Len(filteredItems) /\ ClickLoadMore)
       => LET end == Min(renderedCount + ITEMS_PER_BATCH, Len(filteredItems))
          IN /\ list' = list \o Elements(SubSeq(filteredItems, renderedCount + 1, end))
             /\ renderedCount' - renderedCount = Len(list') - Len(list)
             /\ renderedCount' = end
             /\ UNCHANGED <<active, currentFilter, filteredItems>>]_vars

C2_Witness ==
    /\ variant \in VanillaControllers
    /\ lastOp.op = "loadMore"
    /\ renderedCount = Len(filteredItems)
    /\ renderedCount > ITEMS_PER_BATCH
    /\ renderedCount % ITEMS_PER_BATCH # 0
    /\ Len(list) = renderedCount

\* C3: once renderedCount = length(filteredItems), a load-more click changes
\* nothing: list, renderedCount, filtered sequence, active filter, load-more
\* label state and preview-image visibility are the same before and after.
C3_LoadMoreExhaustedNoChange ==
    [][(variant \in VanillaControllers /\ renderedCount = Len(filteredItems)
          /\ ClickLoadMore)
       => UNCHANGED <<list, renderedCount, filteredItems, currentFilter, active,
                      btn, imgDisplay>>]_vars

C3_Witness ==
    /\ variant \in VanillaControllers
    /\ isInitialized
    /\ lastOp.op = "loadMoreIgnored"
    /\ Len(list) > ITEMS_PER_BATCH
    /\ renderedCount = Len(filteredItems)

\* C4 as stated: in static-fix.js, in every reachable state, before
\* initialization included, the load-more control shows its primary label
\* without the disabled class iff renderedCount < length(filteredItems), and
\* else the no-more-items label with the disabled class.
C4_ButtonStateAlways ==
    (variant = "fix" /\ btn.present)
    => IF renderedCount < Len(filteredItems) THEN ShowsMainLabel ELSE ShowsNoItemsLabel

\* C4 amended: the same in every state in which static-fix.js is initialized.
C4_ButtonStateWhenInitialized ==
    (variant = "fix" /\ btn.present /\ isInitialized)
    => IF renderedCount < Len(filteredItems) THEN ShowsMainLabel ELSE ShowsNoItemsLabel

C4_Witness ==
    /\ variant = "fix"
    /\ isInitialized
    /\ lastOp.op = "loadMore"
    /\ renderedCount = Len(filteredItems)
    /\ ShowsNoItemsLabel

\* the filter the controller holds
ActiveFilter == IF variant = "jquery" THEN filterValue ELSE currentFilter

\* the items of a list of elements that the filter G admits
InFilter(el, G) == G = "all" \/ Lower(OrElse(el.cat, "uncategorized")) = Lower(G)

NumberIn(els, G) == Cardinality({k \in 1..Len(els) : InFilter(els[k], G)})

\* the items of the page: the master list, or the jquery controller's $allItems
PageItems == IF variant = "jquery" THEN list ELSE Elements(masterItems)

FilterStep == \E b \in Buttons : FixClickFilter(b) \/ VanClickFilter(b) \/ JqClickFilter(b)

\* C5: when a filter click changes the filter from F to a different G, the
\* number of displayed items becomes min(8, n_G) whatever was loaded under F,
\* and in every initialized state, so until the next selection and across
\* load-more clicks, no displayed item has a category other than the filter
\* in force, unless that filter is "all".
C5_SwitchRestartsPagination ==
    /\ [](isInitialized =>
             \A k \in 1..Len(Displayed) : InFilter(Displayed[k], ActiveFilter))
    /\ [][(isInitialized /\ FilterStep /\ ActiveFilter' # ActiveFilter)
          => Len(Displayed') = Min(ITEMS_PER_BATCH, NumberIn(PageItems, ActiveFilter'))]_vars

C5_Witness ==
    /\ isInitialized
    /\ lastOp.op = "loadMore"
    /\ ActiveFilter \in {"design", "DESIGN"}
    /\ Len(Displayed) > ITEMS_PER_BATCH
    /\ Len(Displayed) < Len(PageItems)

\* C6: renderedCount <= length(filteredItems) in every reachable state.
C6_RenderedCountBounded == renderedCount <= Len(filteredItems)

C6_Witness ==
    /\ variant = "vanilla"
    /\ isInitialized
    /\ renderedCount = Len(filteredItems)
    /\ renderedCount > ITEMS_PER_BATCH
    /\ renderedCount % ITEMS_PER_BATCH # 0

\* C7: after every click on a filter control exactly one control carries the
\* active class, and no later step changes that, whatever the order of the
\* clicks and also when the same control is clicked again.
C7_ExactlyOneActive ==
    /\ [][FilterStep => Cardinality(active') = 1]_vars
    /\ [][Cardinality(active) = 1 => Cardinality(active') = 1]_vars

C7_Witness ==
    /\ variant = "jquery"
    /\ lastOp = Op("filterIgnored", "design")
    /\ active = {"design"}

\* C8: after every render the preview images left visible are exactly those
\* whose data-id is the id of a displayed item.
C8_ImagesFollowDisplayedItems ==
    (variant \in VanillaControllers /\ isInitialized)
    => {id \in DOMAIN imgDisplay : imgDisplay[id] = ""} = DOMAIN imgDisplay \cap Ids(list)

C8_Witness ==
    /\ variant \in VanillaControllers
    /\ isInitialized
    /\ lastOp.op = "loadMore"
    /\ \E id \in DOMAIN imgDisplay : imgDisplay[id] = "" /\ id > ITEMS_PER_BATCH
    /\ \E id \in DOMAIN imgDisplay : imgDisplay[id] = "none" /\ id \in Ids(Elements(masterItems))

\* the design items of a page, in order
DesignOf(dom) == SelectSeq(dom, LAMBDA el : el.cat = "design")

\* C9: static-fix.js on 20 items, 12 "design" and 8 "branding": selecting
\* "design" displays the first 8 design items, control enabled; a load-more
\* then displays all 12, control disabled; selecting "all" displays the first
\* 8 of the 20 in original order, control enabled.
C9_Scenario ==
    \A dom \in ScenarioDoms :
        (variant = "fix" /\ isInitialized /\ Elements(masterItems) = dom)
        => /\ lastOp = Op("filter", "design")
              => list = SubSeq(DesignOf(dom), 1, 8) /\ ShowsMainLabel
           /\ (lastOp.op = "loadMore" /\ currentFilter = "design")
              => list = DesignOf(dom) /\ Len(list) = 12 /\ ShowsNoItemsLabel
           /\ lastOp = Op("filter", "all")
              => list = SubSeq(dom, 1, 8) /\ ShowsMainLabel

C9_Witness ==
    /\ variant = "fix"
    /\ Elements(masterItems) = ScenarioMixed
    /\ active = {"design"}
    /\ lastOp.op = "loadMore"
    /\ Len(list) = 12
    /\ ShowsNoItemsLabel

InitCall == FixTimer \/ VanTimer \/ VanDOMContentLoaded \/ VanWindowLoad

\* C10: MasterList is built at most once whatever the order of the scheduled
\* init calls, and an init call made when already initialized changes neither
\* masterItems, filteredItems, renderedCount nor the displayed list.
C10_InitIdempotent ==
    /\ [](captures <= 1)
    /\ [][(isInitialized /\ InitCall)
          => UNCHANGED <<masterItems, filteredItems, renderedCount, list>>]_vars

C10_Witness ==
    /\ variant = "fix"
    /\ lastOp.op = "initAgain"
    /\ captures = 1
    /\ Len(list) > ITEMS_PER_BATCH
    /\ Len(masterItems) > Len(list)

\* C11: after capture the master items keep the order, identifiers and
\* categories of the items the page was rendered with, and no later filter
\* selection, load-more click, pending replay or repeated init changes them.
C11_MasterListFrozen ==
    /\ [][(variant \in VanillaControllers /\ ~isInitialized /\ isInitialized')
          => /\ Elements(masterItems') = list
             /\ \A k \in 1..Len(list) :
                    /\ masterItems'[k].id = list[k].id
                    /\ Lower(masterItems'[k].category)
                         = Lower(OrElse(list[k].cat, "uncategorized"))]_vars
    /\ [][isInitialized => masterItems' = masterItems]_vars

C11_Witness ==
    /\ variant = "fix"
    /\ isInitialized
    /\ lastOp = Op("filter", "design")
    /\ Len(masterItems) = MaxItems
    /\ \E k \in 1..Len(masterItems) : masterItems[k].element.cat = ""
    /\ Len(list) = ITEMS_PER_BATCH

\* C12: an init call that finds no portfolio container or no list element
\* returns normally and leaves the controller uninitialized, with
\* masterItems, filteredItems, renderedCount, the pending flags, the controls
\* and the displayed items as they were.
C12_InitWithoutMarkup ==
    [][(InitCall /\ ~isInitialized /\ (~page.container \/ ~page.list))
       => /\ lastOp' = Op("initNoMarkup", "")
          /\ ~isInitialized'
          /\ UNCHANGED <<masterItems, filteredItems, renderedCount, pendingFilter,
                         pendingLoadMore, list, btn, imgDisplay, active>>]_vars

C12_Witness ==
    /\ variant = "fix"
    /\ page.container /\ ~page.list
    /\ lastOp = Op("initNoMarkup", "")
    /\ pendingFilter = "design"
    /\ ~isInitialized

\* the view and the active controls an initialized static-fix.js controller
\* reaches from view v and active set act by the clicks cs, in order
RECURSIVE ClicksOnInitialized(_, _, _, _)
ClicksOnInitialized(cs, v, act, master) ==
    IF cs = <<>> THEN [view |-> v, active |-> act]
    ELSE LET c == Head(cs)
         IN IF c = LoadMoreClick
            THEN ClicksOnInitialized(Tail(cs), loadMoreBranch(v), act, master)
            ELSE IF c \notin act
            THEN ClicksOnInitialized(Tail(cs), applyFilter(v, master, OrElse(c, "all")),
                                     {c}, master)
            ELSE ClicksOnInitialized(Tail(cs), v, act, master)

\* the view of a controller initialized on the page as rendered, nothing pending
FreshView ==
    applyFilter([View EXCEPT !.list = <<>>], BuildMaster(list), "all")

\* the successful init step of static-fix.js
FixInitStep == variant = "fix" /\ ~isInitialized /\ isInitialized'

\* the filter clicks among cs
FilterClicks(cs) == SelectSeq(cs, LAMBDA c : c # LoadMoreClick)

\* the last filter click of cs, if any, then one load-more click, if cs has any
LastQueued(cs) ==
    (IF FilterClicks(cs) = <<>> THEN <<>>
     ELSE <<FilterClicks(cs)[Len(FilterClicks(cs))]>>)
    \o (IF \E k \in 1..Len(cs) : cs[k] = LoadMoreClick THEN <<LoadMoreClick>> ELSE <<>>)

\* what a view shows and holds, the count of rendered batches left out
Shown(v) ==
    [currentFilter |-> v.currentFilter, list |-> v.list,
     renderedCount |-> v.renderedCount, btn |-> v.btn,
     imgDisplay |-> v.imgDisplay, filteredItems |-> v.filteredItems]

\* C13 as stated: the view after an initialization that replays the clicks
\* received before it (applied filter, displayed items, renderedCount,
\* load-more label) is the view the same clicks, in the same order, produce
\* on an initialized controller.
C13_ReplayEqualsSameClicks ==
    [][FixInitStep
       => Shown(View')
            = Shown(ClicksOnInitialized(clicks, FreshView, active,
                                        BuildMaster(list)).view)]_vars

\* C13, amended: the view after an initialization that replays the clicks
\* received before it is the view that the last of the filter clicks, followed
\* by a single load-more click when any load-more click was received, produce
\* on an initialized controller.
C13_ReplayEqualsLastClicks ==
    [][FixInitStep
       => Shown(View')
            = Shown(ClicksOnInitialized(LastQueued(clicks), FreshView, active,
                                        BuildMaster(list)).view)]_vars

C13_Witness ==
    /\ variant = "fix"
    /\ lastOp = Op("init", "")
    /\ currentFilter = "design"
    /\ renderedCount = 2 * ITEMS_PER_BATCH
    /\ Len(filteredItems) > renderedCount
    /\ ShowsMainLabel

\* some item matching the current filter, as matchesFilter decides it, is hidden
HiddenMatching ==
    \E k \in 1..Len(list) : matchesFilter(filterValue, list[k]) /\ dataVisible[k] # "true"

\* C14, in the states after initialization of a page whose load-more control
\* carries no data-max: the control of PortfolioLoadMore is shown enabled, with
\* its main label, exactly when an item matching the current filter (letter
\* case ignored, as matchesFilter does) is still hidden, and is otherwise
\* disabled with the no-more-items label.
C14_EnabledIffHiddenMatching ==
    (variant = "jquery" /\ isInitialized /\ btn.present /\ btn.max = NoMax)
        => IF HiddenMatching THEN ShowsMainLabel ELSE ShowsNoItemsLabel

\* the positions of the hidden items matching the current filter
HiddenPositions ==
    {k \in 1..Len(list) : matchesFilter(filterValue, list[k]) /\ dataVisible[k] # "true"}

\* C15: whenever the load-more control of PortfolioLoadMore is shown enabled,
\* a click on it reveals the next hidden items matching the current filter,
\* loadPerClick of them at most, also after the list was exhausted under
\* one filter and another filter was selected.
C15_EnabledClickReveals ==
    [][(variant = "jquery" /\ isInitialized /\ ShowsMainLabel /\ JqClickLoadMore)
       => dataVisible' = [k \in 1..Len(list) |->
                             IF k \in FirstN(HiddenPositions, loadPerClick)
                             THEN "true" ELSE dataVisible[k]]]_vars

\* the filter a control stands for
FilterOf(b) == Lower(OrElse(b, "all"))

\* C16: in every state after the initialization of static-fix.js, an
\* initialization that replayed a queued filter click included, the control
\* carrying the active class is one whose data-filter is the filter applied,
\* and a click on a control of another category than the displayed one
\* switches to it.
C16_ActiveClassIsAppliedFilter ==
    /\ []((variant = "fix" /\ isInitialized)
            => active # {} /\ \A b \in active : FilterOf(b) = currentFilter)
    /\ [][\A b \in Buttons :
             (isInitialized /\ FixClickFilter(b) /\ FilterOf(b) # currentFilter)
                 => currentFilter' = FilterOf(b)]_vars

\* the items the list displays once the filter value b has been selected in
\* the current state, by the filter handler of the running controller
ShownBySelecting(b) ==
    CASE variant = "fix" -> applyFilter(View, masterItems, OrElse(b, "all")).list
      [] variant = "vanilla" -> VanApplyFilter(View, masterItems, OrElse(b, "all")).list
      [] variant = "jquery" ->
            LET j == setFilter(JqView, OrElse(b, "all"))
                shownAt == SelectSeq([k \in 1..Len(list) |-> k],
                                     LAMBDA k : j.dataVisible[k] = "true")
            IN [n \in 1..Len(shownAt) |-> list[shownAt[n]]]

\* C17: in every variant, selecting a filter value displays the items that
\* selecting its lower-case form displays, and "all" in any letter case and
\* the empty value display the first batch of the unfiltered list.
C17_FilterIgnoresLetterCase ==
    isInitialized
        => \A b \in Buttons :
              /\ ShownBySelecting(b) = ShownBySelecting(Lower(b))
              /\ Lower(b) \in {"all", ""}
                    => ShownBySelecting(b)
                         = SubSeq(PageItems, 1, Min(ITEMS_PER_BATCH, Len(PageItems)))

\* C18: for every click on a filter or load-more control of the container,
\* before and after initialization, the interceptor is the only listener
\* that runs: neither a handler of the host page nor the handler
\* setupFilterHandlers put on the control runs for it.
C18_InterceptorAlone ==
    [][((\E b \in Buttons : FixClickFilter(b)) \/ FixClickLoadMore)
       => ran' = <<"interceptor">>]_vars

C18_Witness ==
    /\ variant = "fix"
    /\ isInitialized
    /\ lastOp = Op("filter", "design")
    /\ ran = <<"interceptor">>
    /\ Len(list) = ITEMS_PER_BATCH

\* the URL jQuery requests for a call
RequestedUrl(call) == call.url

\* C19: a $.ajax call, in either call form, whose URL contains
\* "/portfolio/page/" or "simply_static_page" is not forwarded to the original
\* $.ajax and returns a resolved promise; every other call is forwarded with
\* its arguments unchanged.
C19_PortfolioRequestsBlocked ==
    ajax.call # NoCall
        => IF \/ RequestedUrl(ajax.call) \in PortfolioPageUrls
              \/ RequestedUrl(ajax.call) \in SimplyStaticUrls
           THEN ajax.promise = "resolved" /\ ajax.forwarded = NoCall
           ELSE ajax.promise = "original" /\ ajax.forwarded = ajax.call

\* static-fix.js on a page with the portfolio container and its list
FixOnPortfolioPage == variant = "fix" /\ page.container /\ page.list

\* something is queued for the replay
SomethingPending == pendingFilter # NoFilter \/ pendingLoadMore

\* with the timers firing, static-fix.js on a portfolio page is eventually
\* initialized, and an initialized controller stays initialized
C20_InitializedForGood ==
    /\ FixOnPortfolioPage => <>isInitialized
    /\ [][isInitialized => isInitialized']_vars

\* the load-more clicks among cs
LoadMoreClicks(cs) == SelectSeq(cs, LAMBDA c : c = LoadMoreClick)

\* C20 as stated, for the load-more clicks: with the timers firing,
\* static-fix.js on a portfolio page is eventually initialized and stays so,
\* and every click queued before that moment is processed: when only
\* load-more clicks were queued, the replay of init adds one batch for each
\* of them to the first batch, up to the end of the list.
C20_EveryQueuedClickProcessed ==
    /\ C20_InitializedForGood
    /\ [][(FixInitStep /\ FilterClicks(clicks) = <<>>)
          => renderedCount' = Min((1 + Len(LoadMoreClicks(clicks))) * ITEMS_PER_BATCH,
                                  Len(filteredItems'))]_vars

\* C20, amended: with the timers firing, static-fix.js on a portfolio page is
\* eventually initialized and stays so, and what is pending then is
\* processed: the filter click queued last is applied, one batch is added
\* when a load-more click was queued, and nothing stays pending.
C20_PendingClicksProcessed ==
    /\ C20_InitializedForGood
    /\ (FixOnPortfolioPage /\ SomethingPending) ~> (isInitialized /\ ~SomethingPending)
    /\ [][FixInitStep
          => /\ pendingFilter # NoFilter => currentFilter' = FilterOf(pendingFilter)
             /\ pendingLoadMore
                   => renderedCount' = Min(2 * ITEMS_PER_BATCH, Len(filteredItems'))
             /\ ~SomethingPending']_vars

C20_Witness ==
    /\ variant = "fix"
    /\ lastOp = Op("init", "")
    /\ isInitialized
    /\ ~SomethingPending
    /\ currentFilter = "design"
    /\ renderedCount = Len(filteredItems)
    /\ renderedCount > ITEMS_PER_BATCH

\* a step of the jquery controller in which showItems runs: the
\* initialization, a filter selection carried out, a click on the bound
\* load-more control
ShowItemsOnReset ==
    \/ JqTimer /\ page.container
    \/ \E b \in Buttons : JqClickFilter(b) /\ b \notin active
ShowItemsOnLoadMore == JqClickLoadMore /\ loadMoreBound

\* the positions showItems collects for a batch of n, among the items
\* matching fv that shownBefore does not mark visible
BatchOf(fv, shownBefore, n) ==
    FirstN({k \in 1..Len(list) : matchesFilter(fv, list[k]) /\ shownBefore[k] # "true"}, n)

\* showItems has completed on the batch: every item of it is marked visible
\* and no other item newly, visibleCount has advanced from base by the size of
\* the batch, and the button is in the state updateButtonState gives it
CompletedOn(batch, shownBefore, base) ==
    /\ dataVisible' = [k \in 1..Len(list) |->
                          IF k \in batch THEN "true" ELSE shownBefore[k]]
    /\ visibleCount' = base + Cardinality(batch)
    /\ btn' = JqUpdateButtonState(JqView).btn'

\* C21: when gsap.fromTo throws while showItems reveals a batch, the
\* exception is caught and logged, and showItems completes: all items of the
\* batch are marked visible, visibleCount advances by the size of the batch
\* and the load-more button is updated.
C21_AnimationThrowContained ==
    [][(variant = "jquery" /\ gsap = "throws")
       => /\ ShowItemsOnReset
               => LET hidden == [k \in 1..Len(list) |-> "false"]
                      batch == BatchOf(filterValue', hidden, initialLoad)
                  IN CompletedOn(batch, hidden, 0) /\ (warned' <=> batch # {})
          /\ ShowItemsOnLoadMore
               => LET batch == BatchOf(filterValue, dataVisible, loadPerClick)
                  IN CompletedOn(batch, dataVisible, visibleCount)
                     /\ (warned' <=> batch # {})]_vars

C21_Witness ==
    /\ variant = "jquery"
    /\ gsap = "throws"
    /\ warned
    /\ lastOp = Op("loadMore", "")
    /\ visibleCount = initialLoad + loadPerClick
    /\ ShowsMainLabel

\* the batches that display n items: the one a filter selection renders, and
\* one for each further ITEMS_PER_BATCH items begun
BatchesFor(n) ==
    IF n = 0 THEN 1 ELSE (n + ITEMS_PER_BATCH - 1) \div ITEMS_PER_BATCH

\* a step that selects a filter: a click on a filter control, or an init call
FilterSelection == (\E b \in Buttons : ClickFilter(b)) \/ InitCall

\* C22: in static-fix.js and the vanilla controller renderedCount never
\* decreases between two filter selections, a load-more click made while
\* renderedCount is below the length of the filtered sequence increases it,
\* and after a filter selection with n matching items the list is exhausted,
\* all n items displayed, exactly when max(0, ceil(n/8) - 1) load-more clicks
\* have rendered their batch after the batch of the selection.
C22_LoadMoreReachesExhaustion ==
    /\ [][(variant \in VanillaControllers /\ ~FilterSelection)
          => renderedCount' >= renderedCount]_vars
    /\ [][(ClickLoadMore /\ isInitialized /\ renderedCount < Len(filteredItems))
          => renderedCount' > renderedCount /\ batches' = batches + 1]_vars
    /\ [][(variant \in VanillaControllers /\ ~FilterSelection /\ batches' # batches)
          => ClickLoadMore /\ renderedCount < Len(filteredItems)]_vars
    /\ []((variant \in VanillaControllers /\ isInitialized)
            => LET n == Len(filteredItems)
               IN /\ batches >= 1
                  /\ batches - 1 < BatchesFor(n) - 1
                        => renderedCount = batches * ITEMS_PER_BATCH /\ renderedCount < n
                  /\ batches - 1 >= BatchesFor(n) - 1
                        <=> renderedCount = n /\ Len(list) = n)

C22_Witness ==
    /\ variant = "vanilla"
    /\ lastOp = Op("loadMore", "")
    /\ currentFilter = "design"
    /\ Len(filteredItems) = MaxItems
    /\ batches = 3
    /\ Len(list) = MaxItems
    /\ ShowsNoItemsLabel

\* the positions of the items marked data-visible="true"
VisiblePositions == {k \in 1..Len(list) : dataVisible[k] = "true"}

\* the positions of the items matching the current filter of PortfolioLoadMore
MatchingPositions == {k \in 1..Len(list) : matchesFilter(filterValue, list[k])}

\* C23: in every state of the jquery controller visibleCount is the number
\* of items marked data-visible="true", every item so marked matches the
\* current filter, and the marked items are the first visibleCount matching
\* items in DOM order.
C23_VisibleCountInvariant ==
    variant = "jquery"
        => /\ visibleCount = Cardinality(VisiblePositions)
           /\ VisiblePositions \subseteq MatchingPositions
           /\ VisiblePositions = FirstN(MatchingPositions, visibleCount)

C23_Witness ==
    /\ variant = "jquery"
    /\ isInitialized
    /\ lastOp = Op("loadMore", "")
    /\ filterValue = "design"
    /\ visibleCount > initialLoad
    /\ \E k \in 1..Len(list) :
          k \notin MatchingPositions /\ \E m \in VisiblePositions : k < m

\* C24: in static-fix.js nothing is pending once the controller is
\* initialized: pendingFilter is null and pendingLoadMore is false in every
\* initialized state, and a click handled after initialization sets neither.
C24_NothingPendingOnceInitialized ==
    /\ []((variant = "fix" /\ isInitialized) => ~SomethingPending)
    /\ [][(isInitialized /\ ((\E b \in Buttons : FixClickFilter(b)) \/ FixClickLoadMore))
          => UNCHANGED <<pendingFilter, pendingLoadMore>>]_vars

C24_Witness ==
    /\ variant = "fix"
    /\ isInitialized
    /\ ~SomethingPending
    /\ lastOp = Op("loadMore", "")
    /\ active = {"all"}
    /\ currentFilter = "design"
    /\ renderedCount > 2 * ITEMS_PER_BATCH

====
